---- MODULE Spec2Model ----
(***************************************************************************)
(* Model of MaskObjects.run (cellprofiler/modules/maskobjects.py): a label *)
(* matrix is masked by a binary region under one of four overlap policies  *)
(* and optionally renumbered.  Grids are sequences of rows.  Pixel counts  *)
(* returned by scipy.ndimage.sum are floats; the model keeps them as exact *)
(* naturals and represents a float quotient as a record that is either a   *)
(* rational num/den or the IEEE value nan (0/0).                           *)
(***************************************************************************)
EXTENDS Integers, Sequences, FiniteSets, TLC

VARIABLES pc, segmented, mask, wants_inverted_mask, overlap_choice,
          overlap_fraction, retain_or_renumber, labels, keep,
          parent_objects, child_count, remaining_object_count

vars == <<pc, segmented, mask, wants_inverted_mask, overlap_choice,
          overlap_fraction, retain_or_renumber, labels, keep,
          parent_objects, child_count, remaining_object_count>>

\* ------------------------------------------------------------------ bounds
MaxH == 2
MaxW == 2
MaxLabel == 3
MaxDen == 2

\* --------------------------------------------------------------- constants
P_MASK == "Keep overlapping region"
P_REMOVE == "Remove"
P_KEEP == "Keep"
P_REMOVE_PERCENTAGE == "Remove depending on overlap"
R_RETAIN == "Retain"
R_RENUMBER == "Renumber"

OverlapChoices == {P_MASK, P_KEEP, P_REMOVE, P_REMOVE_PERCENTAGE}
RenumberChoices == {R_RENUMBER, R_RETAIN}

\* A fraction is a rational <<num, den>> in lowest terms inside [0, 1].
RECURSIVE Gcd(_, _)
Gcd(a, b) == IF b = 0 THEN a ELSE Gcd(b, a % b)

Fractions ==
    {q \in (0..MaxDen) \X (1..MaxDen) : q[1] <= q[2] /\ Gcd(q[1], q[2]) = 1}

DefaultFraction == <<1, 2>>

\* ------------------------------------------------------------ grid helpers
Rows(g) == Len(g)
Cols(g) == Len(g[1])
Pixels(g) == (1..Rows(g)) \X (1..Cols(g))
Grids(h, w, V) == [1..h -> [1..w -> V]]

\* np.max(labels), scanning the pixels in row-major order
RECURSIVE MaxFrom(_, _)
MaxFrom(g, i) ==
    IF i > Rows(g) * Cols(g) THEN 0
    ELSE LET v == g[((i - 1) \div Cols(g)) + 1][((i - 1) % Cols(g)) + 1]
             rest == MaxFrom(g, i + 1)
         IN IF v > rest THEN v ELSE rest

NpMax(g) == MaxFrom(g, 1)

\* mask = ~mask
Invert(m) == [r \in 1..Rows(m) |-> [c \in 1..Cols(m) |-> ~m[r][c]]]

\* cpo.size_similarly(labels, mask): the mask cropped / padded to the shape
\* of labels, and the array m1 that is true where the mask had a value.
SizeSimilarly(lab, m) ==
    [resized |-> [r \in 1..Rows(lab) |-> [c \in 1..Cols(lab) |->
                     IF r <= Rows(m) /\ c <= Cols(m) THEN m[r][c] ELSE FALSE]],
     m1 |-> [r \in 1..Rows(lab) |-> [c \in 1..Cols(lab) |->
                     r <= Rows(m) /\ c <= Cols(m)]]]

\* mask[~m1] = False
ClearInvalid(m, m1) ==
    [r \in 1..Rows(m) |-> [c \in 1..Cols(m) |-> IF m1[r][c] THEN m[r][c] ELSE FALSE]]

\* a boolean array used as a numeric one
AsInt(m) == [r \in 1..Rows(m) |-> [c \in 1..Cols(m) |-> IF m[r][c] THEN 1 ELSE 0]]

\* np.ones(labels.shape)
NpOnes(g) == [r \in 1..Rows(g) |-> [c \in 1..Cols(g) |-> 1]]

\* scind.sum(input, labels, index) for one index value k: the sum of input
\* over the pixels whose label is k, accumulated in row-major order.
RECURSIVE SumFrom(_, _, _, _)
SumFrom(input, lab, k, i) ==
    IF i > Rows(lab) * Cols(lab) THEN 0
    ELSE LET r == ((i - 1) \div Cols(lab)) + 1
             c == ((i - 1) % Cols(lab)) + 1
         IN (IF lab[r][c] = k THEN input[r][c] ELSE 0) + SumFrom(input, lab, k, i + 1)

\* fix(scind.sum(input, labels, np.arange(1, nobjects+1)))
ScindSum(input, lab, nobjects) == [k \in 1..nobjects |-> SumFrom(input, lab, k, 1)]

\* ------------------------------------------------------- overlap classifier
\* Mutation: the mask applied with the wrong sense (labels * ~mask).
ClipLabelsInverted(lab, m) ==
    [r \in 1..Rows(lab) |-> [c \in 1..Cols(lab) |->
        IF m[r][c] THEN 0 ELSE lab[r][c]]]

\* labels = labels * mask
ClipLabels(lab, m) ==
    [r \in 1..Rows(lab) |-> [c \in 1..Cols(lab) |-> lab[r][c] * AsInt(m)[r][c]]]

\* Mutation: keep = pixel_counts >= 0.
KeepAnyGE(pixel_counts) ==
    [k \in 1..Len(pixel_counts) |-> pixel_counts[k] >= 0]

\* keep = pixel_counts > 0
KeepAny(pixel_counts) ==
    [k \in 1..Len(pixel_counts) |-> pixel_counts[k] > 0]

\* Mutation: keep = pixel_counts <= total_pixels.
KeepRemoveLE(pixel_counts, total_pixels) ==
    [k \in 1..Len(pixel_counts) |-> pixel_counts[k] <= total_pixels[k]]

\* Mutation: the test of the Keep branch used for Remove.
KeepRemoveAny(pixel_counts, total_pixels) ==
    [k \in 1..Len(pixel_counts) |-> pixel_counts[k] > 0]

\* keep = pixel_counts == total_pixels
KeepRemove(pixel_counts, total_pixels) ==
    [k \in 1..Len(pixel_counts) |-> pixel_counts[k] = total_pixels[k]]

\* Float division a / b of two non-negative counts: 0/0 is nan, x/0 is inf.
Divide(a, b) ==
    IF b = 0 THEN [kind |-> IF a = 0 THEN "nan" ELSE "inf", num |-> a, den |-> b]
    ELSE [kind |-> "num", num |-> a, den |-> b]

\* q >= f for a float quotient q and a finite fraction f; nan compares false.
GreaterEqual(q, f) ==
    CASE q.kind = "nan" -> FALSE
      [] q.kind = "inf" -> TRUE
      [] OTHER -> q.num * f[2] >= f[1] * q.den

\* Mutation: integer (floor) division of the counts, x // 0 giving 0.
KeepFractionFloor(pixel_counts, total_pixels, fraction) ==
    [k \in 1..Len(pixel_counts) |->
        LET q == IF total_pixels[k] = 0 THEN 0
                 ELSE pixel_counts[k] \div total_pixels[k]
        IN  q * fraction[2] >= fraction[1]]

\* Mutation: keep = pixel_counts / total_pixels > fraction.
KeepFractionStrict(pixel_counts, total_pixels, fraction) ==
    [k \in 1..Len(pixel_counts) |->
        LET q == Divide(pixel_counts[k], total_pixels[k])
        IN  q.kind # "nan" /\ (q.kind = "inf" \/ q.num * fraction[2] > fraction[1] * q.den)]

\* keep = pixel_counts / total_pixels >= fraction
KeepFraction(pixel_counts, total_pixels, fraction) ==
    [k \in 1..Len(pixel_counts) |->
        GreaterEqual(Divide(pixel_counts[k], total_pixels[k]), fraction)]

\* keep = np.hstack(([False], keep)): indexed from 0
HStackFalse(kp) == [k \in 0..Len(kp) |-> IF k = 0 THEN FALSE ELSE kp[k]]

\* Mutation: labels[keep[labels]] = 0.
ZeroNotKeptInverted(lab, kp) ==
    [r \in 1..Rows(lab) |-> [c \in 1..Cols(lab) |->
        IF kp[lab[r][c]] THEN 0 ELSE lab[r][c]]]

\* labels[~ keep[labels]] = 0
ZeroNotKept(lab, kp) ==
    [r \in 1..Rows(lab) |-> [c \in 1..Cols(lab) |->
        IF kp[lab[r][c]] THEN lab[r][c] ELSE 0]]

\* The keep vector of the three policies that test whole objects.
KeepVector(lab, m, nobjects, choice, fraction) ==
    LET pixel_counts == ScindSum(AsInt(m), lab, nobjects)
        total_pixels == ScindSum(NpOnes(lab), lab, nobjects)
    IN  CASE choice = P_KEEP -> KeepAny(pixel_counts)
          [] choice = P_REMOVE -> KeepRemove(pixel_counts, total_pixels)
          [] choice = P_REMOVE_PERCENTAGE ->
                 KeepFraction(pixel_counts, total_pixels, fraction)

\* "Apply the mask according to the overlap choice": the labels after the
\* policy, and the keep vector when the policy computes one.
ApplyMask(lab, m, nobjects, choice, fraction) ==
    IF nobjects = 0 THEN [labels |-> lab, keep |-> <<>>]
    ELSE IF choice = P_MASK THEN [labels |-> ClipLabels(lab, m), keep |-> <<>>]
    ELSE LET kp == KeepVector(lab, m, nobjects, choice, fraction)
         IN  [labels |-> ZeroNotKept(lab, HStackFalse(kp)), keep |-> kp]

\* ---------------------------------------------------------------- relabeler
RECURSIVE SortedSeq(_)
SortedSeq(S) ==
    IF S = {} THEN <<>>
    ELSE LET lo == CHOOSE x \in S : \A y \in S : x <= y
         IN  <<lo>> \o SortedSeq(S \ {lo})

\* labels[labels != 0]
NonZeroValues(lab) ==
    {lab[p[1]][p[2]] : p \in {q \in Pixels(lab) : lab[q[1]][q[2]] # 0}}

\* Mutation: unique_labels = np.unique(labels), background included.
UniqueLabelsWithZero(lab) == SortedSeq({lab[p[1]][p[2]] : p \in Pixels(lab)})

\* unique_labels = np.unique(labels[labels!=0])
UniqueLabels(lab) == SortedSeq(NonZeroValues(lab))

\* Mutation: indexer[unique_labels] = np.arange(0, len(unique_labels)).
IndexerFromZero(unique_labels, nobjects) ==
    [k \in 0..nobjects |->
        IF \E i \in 1..Len(unique_labels) : unique_labels[i] = k
        THEN (CHOOSE i \in 1..Len(unique_labels) : unique_labels[i] = k) - 1
        ELSE 0]

\* indexer = np.zeros(nobjects+1, int)
\* indexer[unique_labels] = np.arange(1, len(unique_labels)+1)
Indexer(unique_labels, nobjects) ==
    [k \in 0..nobjects |->
        IF \E i \in 1..Len(unique_labels) : unique_labels[i] = k
        THEN CHOOSE i \in 1..Len(unique_labels) : unique_labels[i] = k
        ELSE 0]

\* labels = indexer[labels]
ApplyIndexer(indexer, lab) ==
    [r \in 1..Rows(lab) |-> [c \in 1..Cols(lab) |-> indexer[lab[r][c]]]]

\* Mutation: np.arange(0, nobjects+1).
Arange0(nobjects) == [k \in 1..nobjects + 1 |-> k - 1]

\* np.arange(1, nobjects+1)
Arange1(nobjects) == [k \in 1..nobjects |-> k]

\* "Renumber the labels matrix if requested"
Relabel(lab, nobjects, rr) ==
    IF rr = R_RENUMBER
    THEN LET unique_labels == UniqueLabels(lab)
         IN  [labels |-> ApplyIndexer(Indexer(unique_labels, nobjects), lab),
              parent_objects |-> unique_labels,
              remaining_object_count |-> Len(unique_labels)]
    ELSE [labels |-> lab,
          parent_objects |-> Arange1(nobjects),
          remaining_object_count |-> nobjects]

\* Mutation: the sums grouped by the final labels instead of the original
\* segmentation.
ChildCountOfFinal(final, seg) ==
    IF NpMax(seg) = 0 THEN <<>>
    ELSE LET sums == ScindSum(final, final, NpMax(seg))
         IN  [k \in 1..Len(sums) |-> IF sums[k] > 0 THEN 1 ELSE 0]

\* child_count: for every original object, 1 if any of its pixels is nonzero
\* in the final labels.
ChildCount(final, seg) ==
    IF NpMax(seg) = 0 THEN <<>>
    ELSE LET sums == ScindSum(final, seg, NpMax(seg))
         IN  [k \in 1..Len(sums) |-> IF sums[k] > 0 THEN 1 ELSE 0]

\* Mutation: the mask inverted after it was resized instead of before.
AlignedMaskInvertLast(seg, m, inverted) ==
    LET ss == SizeSimilarly(seg, m)
        am == ClearInvalid(ss.resized, ss.m1)
    IN  IF inverted THEN Invert(am) ELSE am

\* The mask the policies see: inverted if asked, resized to the labels.
AlignedMask(seg, m, inverted) ==
    LET m0 == IF inverted THEN Invert(m) ELSE m
        ss == SizeSimilarly(seg, m0)
    IN  ClearInvalid(ss.resized, ss.m1)

\* MaskObjects.run: everything it hands to the object set and measurements.
MaskObjectsRun(seg, m, inverted, choice, fraction, rr) ==
    LET nobjects == NpMax(seg)
        am == AlignedMask(seg, m, inverted)
        masked == ApplyMask(seg, am, nobjects, choice, fraction)
        rel == Relabel(masked.labels, nobjects, rr)
    IN  [labels |-> rel.labels,
         keep |-> masked.keep,
         parent_objects |-> rel.parent_objects,
         child_count |-> ChildCount(rel.labels, seg),
         remaining_object_count |-> rel.remaining_object_count]

\* ------------------------------------------------------------ state machine
\* The worked example of the specification's testable properties.
ScenarioLabels == << <<1, 1, 2>>, <<1, 2, 2>>, <<0, 2, 2>> >>
ScenarioMask == << <<TRUE, TRUE, FALSE>>, <<TRUE, FALSE, FALSE>>,
                   <<FALSE, FALSE, FALSE>> >>

\* Seven objects of which a mask keeps 2, 5 and 7.
RenumberLabels == << <<1, 2, 3>>, <<4, 5, 6>>, <<7, 0, 0>> >>
RenumberMask == << <<FALSE, TRUE, FALSE>>, <<FALSE, TRUE, FALSE>>,
                   <<TRUE, FALSE, FALSE>> >>

\* Mask shapes tried against an h x w label matrix: the same shape, one
\* shorter and wider, one taller and narrower.
MaskShapes(h, w) ==
    {s \in {<<h, w>>, <<h - 1, w + 1>>, <<h + 1, w - 1>>} : s[1] >= 1 /\ s[2] >= 1}

InitInputs ==
    \/ /\ segmented = ScenarioLabels
       /\ mask = ScenarioMask
       /\ wants_inverted_mask = FALSE
    \/ /\ segmented = RenumberLabels
       /\ mask = RenumberMask
       /\ wants_inverted_mask = FALSE
    \/ /\ segmented \in Grids(MaxH, MaxW, 0..MaxLabel)
       /\ \E s \in MaskShapes(MaxH, MaxW) : mask \in Grids(s[1], s[2], BOOLEAN)
       /\ wants_inverted_mask \in BOOLEAN

Init ==
    /\ pc = "ready"
    /\ InitInputs
    /\ overlap_choice \in OverlapChoices
    /\ overlap_fraction \in Fractions
    /\ overlap_choice # P_REMOVE_PERCENTAGE => overlap_fraction = DefaultFraction
    /\ retain_or_renumber \in RenumberChoices
    /\ labels = <<>>
    /\ keep = <<>>
    /\ parent_objects = <<>>
    /\ child_count = <<>>
    /\ remaining_object_count = 0

Run ==
    /\ pc = "ready"
    /\ \E out \in {MaskObjectsRun(segmented, mask, wants_inverted_mask,
                                   overlap_choice, overlap_fraction,
                                   retain_or_renumber)} :
           /\ labels' = out.labels
           /\ keep' = out.keep
           /\ parent_objects' = out.parent_objects
           /\ child_count' = out.child_count
           /\ remaining_object_count' = out.remaining_object_count
    /\ pc' = "done"
    /\ UNCHANGED <<segmented, mask, wants_inverted_mask, overlap_choice,
                   overlap_fraction, retain_or_renumber>>

Next == Run

Spec == Init /\ [][Next]_vars

TypeOK ==
    /\ pc \in {"ready", "done"}
    /\ pc = "done" => /\ Rows(labels) = Rows(segmented)
                     /\ Cols(labels) = Cols(segmented)

\* ------------------------------------------------- vocabulary of the claims
Done == pc = "done"
At(g, p) == g[p[1]][p[2]]
Fraction(n, d) == overlap_choice = P_REMOVE_PERCENTAGE /\ overlap_fraction = <<n, d>>

\* The mask value the user means at pixel p of the label matrix: the input
\* mask, inverted if asked, and false outside the extent of the input mask.
MaskAt(p) ==
    /\ p[1] <= Rows(mask)
    /\ p[2] <= Cols(mask)
    /\ At(mask, p) # wants_inverted_mask

ObjectPixels(k) == {p \in Pixels(segmented) : At(segmented, p) = k}
TotalCount(k) == Cardinality(ObjectPixels(k))
OverlapCount(k) == Cardinality({p \in ObjectPixels(k) : MaskAt(p)})
InputValues == {At(segmented, p) : p \in Pixels(segmented)}
ObjectCount == CHOOSE m \in InputValues \cup {0} : \A v \in InputValues : v <= m
ObjectIds == 1..ObjectCount
Present(g) == {At(g, p) : p \in Pixels(g)} \ {0}
Rank(k, S) == Cardinality({j \in S : j <= k})

\* The survivor test of each policy as the specification words it.
PolicySurvives(k, choice, f) ==
    CASE choice = P_MASK -> OverlapCount(k) >= 1
      [] choice = P_KEEP -> OverlapCount(k) > 0
      [] choice = P_REMOVE -> TotalCount(k) > 0 /\ OverlapCount(k) = TotalCount(k)
      [] choice = P_REMOVE_PERCENTAGE ->
             TotalCount(k) > 0 /\ OverlapCount(k) * f[2] >= f[1] * TotalCount(k)

\* What run would have produced from the same inputs under another policy.
OtherRun(choice, f) ==
    MaskObjectsRun(segmented, mask, wants_inverted_mask, choice, f,
                   retain_or_renumber)

\* ------------------------------------------------------------------- claims
\* C1: under ClipToOverlap with Retain numbering and at least one object,
\* every output pixel is the input label where the mask is true and 0 where
\* it is false, and an object keeps a pixel iff it has a pixel in the mask.
C1_ClipToOverlapPixels ==
    (Done /\ overlap_choice = P_MASK /\ retain_or_renumber = R_RETAIN
          /\ ObjectCount >= 1) =>
        /\ \A p \in Pixels(segmented) :
              At(labels, p) = IF MaskAt(p) THEN At(segmented, p) ELSE 0
        /\ \A k \in ObjectIds : k \in Present(labels) <=> OverlapCount(k) >= 1

\* C1 witness: a clipped run in which one object loses part of its pixels
\* and another loses all of them.
C1_Witness ==
    /\ Done /\ overlap_choice = P_MASK /\ retain_or_renumber = R_RETAIN
    /\ \E k \in ObjectIds : 0 < OverlapCount(k) /\ OverlapCount(k) < TotalCount(k)
                            /\ k \in Present(labels)
    /\ \E k \in ObjectIds : TotalCount(k) > 0 /\ OverlapCount(k) = 0
                            /\ k \notin Present(labels)

\* C2: under KeepIfAnyOverlap and RemoveIfAnyOutside with Retain numbering
\* every output pixel is its input label when that label's object survives
\* (overlap > 0, resp. overlap = total) and 0 otherwise.
C2_SurvivalByTestPixels ==
    (Done /\ overlap_choice \in {P_KEEP, P_REMOVE}
          /\ retain_or_renumber = R_RETAIN) =>
        \A p \in Pixels(segmented) :
            LET k == At(segmented, p)
                survives == IF overlap_choice = P_KEEP
                            THEN OverlapCount(k) > 0
                            ELSE OverlapCount(k) = TotalCount(k)
            IN  At(labels, p) = IF k # 0 /\ survives THEN k ELSE 0

\* C2 witness: KeepIfAnyOverlap kept a straddling object whole and removed
\* an object that lies entirely outside the mask.
C2_Witness ==
    /\ Done /\ overlap_choice = P_KEEP /\ retain_or_renumber = R_RETAIN
    /\ \E k \in ObjectIds :
          /\ 0 < OverlapCount(k) /\ OverlapCount(k) < TotalCount(k)
          /\ \A p \in ObjectPixels(k) : At(labels, p) = k
    /\ \E k \in ObjectIds :
          /\ TotalCount(k) > 0 /\ OverlapCount(k) = 0
          /\ \A p \in ObjectPixels(k) : At(labels, p) = 0

\* C3: under RemoveByFraction(f) an id in 1..object_count is kept iff its
\* total pixel count is > 0 and overlap / total >= f; an id with no pixels
\* is never kept, and the run still completes.
C3_FractionSurvival ==
    (Done /\ overlap_choice = P_REMOVE_PERCENTAGE) =>
        /\ Len(keep) = ObjectCount
        /\ \A k \in ObjectIds :
              /\ keep[k] <=>
                    (TotalCount(k) > 0 /\
                     OverlapCount(k) * overlap_fraction[2] >=
                         overlap_fraction[1] * TotalCount(k))
              /\ TotalCount(k) = 0 => ~keep[k]
              /\ retain_or_renumber = R_RETAIN =>
                    (k \in Present(labels) <=> keep[k])

\* C3 witness: with f = 1/2 an object exactly at the threshold was kept
\* while an id without pixels was not.
C3_Witness ==
    /\ Done /\ Fraction(1, 2)
    /\ \E k \in ObjectIds : TotalCount(k) = 2 /\ OverlapCount(k) = 1 /\ keep[k]
    /\ \E k \in ObjectIds : TotalCount(k) = 0 /\ ~keep[k]

\* C4: with Renumber and any policy the positive output values are exactly
\* 1..n, n the number of surviving objects; a surviving pixel of original
\* object k carries the rank of k among the survivors, and lineage[i] is the
\* i-th smallest surviving original id.
C4_RenumberDense ==
    (Done /\ retain_or_renumber = R_RENUMBER) =>
        LET S == {k \in ObjectIds : PolicySurvives(k, overlap_choice, overlap_fraction)}
            n == Cardinality(S)
        IN  /\ Present(labels) = 1..n
            /\ \A p \in Pixels(segmented) :
                  At(labels, p) =
                      IF At(segmented, p) \in S /\ (overlap_choice = P_MASK => MaskAt(p))
                      THEN Rank(At(segmented, p), S) ELSE 0
            /\ Len(parent_objects) = n
            /\ \A i \in 1..n : parent_objects[i] \in S /\ Rank(parent_objects[i], S) = i

\* C4 witness: survivors {2, 5, 7} of 7 objects, renumbered 1, 2, 3.
C4_Witness ==
    /\ Done /\ retain_or_renumber = R_RENUMBER /\ ObjectCount = 7
    /\ parent_objects = <<2, 5, 7>>
    /\ Present(labels) = {1, 2, 3}

\* C5: for the same labels and mask and any f in (0, 1], the labels present
\* in the Retain output of RemoveIfAnyOutside are among those of
\* RemoveByFraction(f), which are among those of KeepIfAnyOverlap.
C5_SurvivorSetChain ==
    (Done /\ retain_or_renumber = R_RETAIN) =>
        /\ overlap_choice = P_REMOVE =>
              \A f \in Fractions : f[1] > 0 =>
                  Present(labels) \subseteq Present(OtherRun(P_REMOVE_PERCENTAGE, f).labels)
        /\ (overlap_choice = P_REMOVE_PERCENTAGE /\ overlap_fraction[1] > 0) =>
              /\ Present(OtherRun(P_REMOVE, DefaultFraction).labels) \subseteq Present(labels)
              /\ Present(labels) \subseteq Present(OtherRun(P_KEEP, DefaultFraction).labels)

\* C5 witness: with f = 1/2 an object half inside the mask survives the
\* fraction test but not RemoveIfAnyOutside, which keeps another object.
C5_Witness ==
    /\ Done /\ retain_or_renumber = R_RETAIN /\ Fraction(1, 2)
    /\ \E k \in Present(labels) : OverlapCount(k) < TotalCount(k)
    /\ Present(OtherRun(P_REMOVE, DefaultFraction).labels) # {}
    /\ Present(OtherRun(P_REMOVE, DefaultFraction).labels) # Present(labels)

\* C6 as stated: an object with at least one pixel survives
\* RemoveByFraction(0) iff it has nonzero overlap with the mask, so the
\* output grid equals that of KeepIfAnyOverlap.
C6_AsStated ==
    (Done /\ Fraction(0, 1) /\ retain_or_renumber = R_RETAIN) =>
        /\ \A k \in ObjectIds :
              TotalCount(k) > 0 => (k \in Present(labels) <=> OverlapCount(k) > 0)
        /\ labels = OtherRun(P_KEEP, DefaultFraction).labels

\* C6 amended: RemoveByFraction(0) keeps every object that has at least one
\* pixel whatever its overlap, so its Retain output is the input grid; it
\* equals the output of KeepIfAnyOverlap exactly when every object with
\* pixels has nonzero overlap.  An id without pixels is still never kept.
C6_FractionZeroKeepsAll ==
    (Done /\ Fraction(0, 1) /\ retain_or_renumber = R_RETAIN) =>
        /\ \A k \in ObjectIds : keep[k] <=> TotalCount(k) > 0
        /\ labels = segmented
        /\ (labels = OtherRun(P_KEEP, DefaultFraction).labels) <=>
              (\A k \in ObjectIds : TotalCount(k) > 0 => OverlapCount(k) > 0)

\* C6 witness: RemoveByFraction(0) kept an object that has pixels but none
\* of them inside the mask.
C6_Witness ==
    /\ Done /\ Fraction(0, 1) /\ retain_or_renumber = R_RETAIN
    /\ \E k \in ObjectIds : /\ TotalCount(k) > 0 /\ OverlapCount(k) = 0
                            /\ k \in Present(labels)

\* C7: RemoveByFraction(1) and RemoveIfAnyOutside produce the same output
\* grid and the same lineage from the same labels, mask and renumber policy.
C7_FractionOneIsRemove ==
    /\ (Done /\ Fraction(1, 1)) =>
          /\ labels = OtherRun(P_REMOVE, DefaultFraction).labels
          /\ parent_objects = OtherRun(P_REMOVE, DefaultFraction).parent_objects
    /\ (Done /\ overlap_choice = P_REMOVE) =>
          /\ labels = OtherRun(P_REMOVE_PERCENTAGE, <<1, 1>>).labels
          /\ parent_objects = OtherRun(P_REMOVE_PERCENTAGE, <<1, 1>>).parent_objects

\* C7 witness: RemoveByFraction(1) kept an object inside the mask, removed
\* a straddling one, and an id without pixels makes the keep vectors of the
\* two policies differ.
C7_Witness ==
    /\ Done /\ Fraction(1, 1)
    /\ \E k \in ObjectIds : TotalCount(k) > 0 /\ keep[k]
    /\ \E k \in ObjectIds : 0 < OverlapCount(k) /\ OverlapCount(k) < TotalCount(k)
                            /\ ~keep[k]
    /\ keep # OtherRun(P_REMOVE, DefaultFraction).keep

\* The worked example, and the counts the code computes for it.
InScenario ==
    /\ Done /\ segmented = ScenarioLabels /\ mask = ScenarioMask
    /\ ~wants_inverted_mask
ScenarioOverlap ==
    ScindSum(AsInt(AlignedMask(segmented, mask, wants_inverted_mask)), segmented, 2)
ScenarioTotal == ScindSum(NpOnes(segmented), segmented, 2)
ScenarioRemoveOutput == << <<1, 1, 0>>, <<1, 0, 0>>, <<0, 0, 0>> >>

\* C8 as stated: in the worked example object 1 has total 3 and overlap 3
\* and survives every policy; object 2 has total 5 and overlap 1, survives
\* KeepIfAnyOverlap, fails RemoveIfAnyOutside and RemoveByFraction(0.5); the
\* RemoveIfAnyOutside output is [[1,1,0],[1,0,0],[0,0,0]].
C8_AsStated ==
    (InScenario /\ retain_or_renumber = R_RETAIN) =>
        /\ ScenarioTotal = <<3, 5>>
        /\ ScenarioOverlap = <<3, 1>>
        /\ 1 \in Present(labels)
        /\ overlap_choice = P_KEEP => 2 \in Present(labels)
        /\ overlap_choice = P_REMOVE =>
              2 \notin Present(labels) /\ labels = ScenarioRemoveOutput
        /\ Fraction(1, 2) => 2 \notin Present(labels)

\* C8 amended: in the worked example object 2 has total 5 and overlap 0 (no
\* pixel of it lies in the mask), so it fails KeepIfAnyOverlap as well as
\* RemoveIfAnyOutside and RemoveByFraction(0.5); object 1 (total 3,
\* overlap 3) survives every policy and the RemoveIfAnyOutside output is
\* [[1,1,0],[1,0,0],[0,0,0]].
C8_ScenarioAmended ==
    (InScenario /\ retain_or_renumber = R_RETAIN) =>
        /\ ScenarioTotal = <<3, 5>>
        /\ ScenarioOverlap = <<3, 0>>
        /\ 1 \in Present(labels)
        /\ overlap_choice = P_KEEP => 2 \notin Present(labels)
        /\ overlap_choice = P_REMOVE =>
              2 \notin Present(labels) /\ labels = ScenarioRemoveOutput
        /\ Fraction(1, 2) => 2 \notin Present(labels)

\* C8 witness: the worked example run under KeepIfAnyOverlap, which removed
\* object 2 and left object 1.
C8_Witness ==
    /\ InScenario /\ retain_or_renumber = R_RETAIN /\ overlap_choice = P_KEEP
    /\ labels = ScenarioRemoveOutput

\* C9: under every policy and numbering a pixel that is background in the
\* input is background in the output.
C9_BackgroundStaysBackground ==
    Done => \A p \in Pixels(segmented) : At(segmented, p) = 0 => At(labels, p) = 0

\* C9 witness: a renumbering run over a grid with background in which one
\* object was removed and another is left.
C9_Witness ==
    /\ Done /\ retain_or_renumber = R_RENUMBER
    /\ \E p \in Pixels(segmented) : At(segmented, p) = 0
    /\ \E p \in Pixels(segmented) : At(segmented, p) # 0 /\ At(labels, p) = 0
    /\ Present(labels) # {}

\* C10: when the input grid is all zeros the run completes for any mask and
\* policies with an all-zero output grid, an empty lineage and an empty
\* survived vector.
C10_EmptyInput ==
    /\ (pc = "ready" /\ InputValues = {0}) => ENABLED Run
    /\ (Done /\ InputValues = {0}) =>
          /\ \A p \in Pixels(segmented) : At(labels, p) = 0
          /\ Rows(labels) = Rows(segmented) /\ Cols(labels) = Cols(segmented)
          /\ parent_objects = <<>>
          /\ child_count = <<>>

\* C10 witness: an all-zero grid run against a mask with a true cell under
\* the fraction policy with renumbering.
C10_Witness ==
    /\ Done /\ InputValues = {0}
    /\ \E p \in Pixels(segmented) : MaskAt(p)
    /\ overlap_choice = P_REMOVE_PERCENTAGE /\ retain_or_renumber = R_RENUMBER

\* The input mask and the label matrix differ in shape.
ShapeMismatch == Rows(mask) # Rows(segmented) \/ Cols(mask) # Cols(segmented)

\* C11: for a mask whose shape differs from the label grid's, the run is
\* defined (raises no error) and the policies see a mask of exactly the label grid's shape
\* whose cells inside both shapes are the mask's cells and whose cells
\* outside the mask's extent are false; so under every policy a label pixel
\* outside the mask's extent counts as not overlapping the mask.
C11_AlignedMaskShape ==
    /\ (pc = "ready" /\ ShapeMismatch) =>
          LET out == OtherRun(overlap_choice, overlap_fraction).labels
          IN  Rows(out) = Rows(segmented) /\ Cols(out) = Cols(segmented)
    /\ (Done /\ ShapeMismatch) =>
          LET am == AlignedMask(segmented, mask, wants_inverted_mask)
              inside(p) == p[1] <= Rows(mask) /\ p[2] <= Cols(mask)
          IN  /\ Rows(am) = Rows(segmented)
              /\ \A r \in 1..Rows(am) : Len(am[r]) = Cols(segmented)
              /\ \A p \in Pixels(segmented) :
                    At(am, p) = IF inside(p) THEN At(mask, p) # wants_inverted_mask
                                ELSE FALSE
              /\ \A k \in ObjectIds :
                    ScindSum(AsInt(am), segmented, ObjectCount)[k] =
                        Cardinality({p \in ObjectPixels(k) : inside(p) /\ At(am, p)})
              /\ (overlap_choice = P_MASK /\ ObjectCount >= 1) =>
                    \A p \in Pixels(segmented) : ~inside(p) => At(labels, p) = 0
              /\ overlap_choice # P_MASK =>
                    \A k \in ObjectIds :
                        LET in_mask == Cardinality({p \in ObjectPixels(k) :
                                           inside(p) /\ At(mask, p) # wants_inverted_mask})
                        IN  keep[k] <=>
                              CASE overlap_choice = P_KEEP -> in_mask > 0
                                [] overlap_choice = P_REMOVE -> in_mask = TotalCount(k)
                                [] OTHER ->
                                     /\ TotalCount(k) > 0
                                     /\ in_mask * overlap_fraction[2] >=
                                            overlap_fraction[1] * TotalCount(k)

\* C11 witness: an inverted 1 x 3 mask against a 2 x 2 label grid; an object
\* with a pixel under a true mask cell and a pixel below the mask's extent
\* was removed by RemoveIfAnyOutside.
C11_Witness ==
    /\ Done /\ ShapeMismatch /\ wants_inverted_mask
    /\ Rows(mask) < Rows(segmented) /\ Cols(mask) > Cols(segmented)
    /\ overlap_choice = P_REMOVE
    /\ \E k \in ObjectIds :
          /\ \E p \in ObjectPixels(k) : p[1] > Rows(mask)
          /\ \A p \in ObjectPixels(k) : p[1] <= Rows(mask) => MaskAt(p)
          /\ OverlapCount(k) > 0
          /\ ~keep[k]

\* C12: for every policy and numbering the child count, indexed by original
\* id 1..object_count, is 1 exactly for the ids in the policy's survivor set
\* and 0 for the others, and these are exactly the ids that still own a
\* nonzero pixel in the output grid; an id without input pixels is flagged 0
\* under RemoveIfAnyOutside although its overlap count equals its total.
C12_ChildCountIsSurvival ==
    Done =>
        /\ Len(child_count) = ObjectCount
        /\ \A k \in ObjectIds :
              /\ child_count[k] \in {0, 1}
              /\ child_count[k] = 1 <=>
                    PolicySurvives(k, overlap_choice, overlap_fraction)
              /\ child_count[k] = 1 <=>
                    \E p \in ObjectPixels(k) : At(labels, p) # 0
              /\ (overlap_choice = P_REMOVE /\ TotalCount(k) = 0) =>
                    (keep[k] /\ child_count[k] = 0)

\* C12 witness: a renumbering RemoveIfAnyOutside run with an id without
\* pixels (kept by the test, flagged 0), a removed object and a surviving
\* object whose new id differs from its original id.
C12_Witness ==
    /\ Done /\ overlap_choice = P_REMOVE /\ retain_or_renumber = R_RENUMBER
    /\ \E k \in ObjectIds : TotalCount(k) = 0 /\ keep[k] /\ child_count[k] = 0
    /\ \E k \in ObjectIds : TotalCount(k) > 0 /\ ~keep[k] /\ child_count[k] = 0
    /\ \E k \in ObjectIds : /\ child_count[k] = 1
                            /\ \E p \in ObjectPixels(k) : At(labels, p) # k

====
